---- MODULE Spec2Model ----
(***************************************************************************)
(* mezzanine.conf: the settings registry (register_setting) and the        *)
(* per-request resolver (Settings) over the registry, the framework        *)
(* settings object (django_settings) and the Setting table of the          *)
(* database.                                                               *)
(*                                                                         *)
(* Text (setting names, the value column of a row, str defaults) is a      *)
(* sequence of one-character strings.  A Python value is a record          *)
(* [t |-> runtime type, v |-> payload]: bool and int carry an integer      *)
(* (True is 1, False is 0), str carries text, list carries a sequence of   *)
(* text, bytes carries a sequence of byte numbers, None carries <<>>.      *)
(***************************************************************************)
EXTENDS Integers, Sequences, FiniteSets, TLC

VARIABLES
    registry,          \* name -> descriptor            (module global, line 22)
    django_settings,   \* name -> value, the framework settings object
    db,                \* name -> text, the rows of Setting.objects
    live,              \* the request objects that are still referenced
    _editable_caches,  \* request identity -> (name -> value)
    scans,             \* request identity -> _load calls since its last clear
    late,              \* register_setting calls made after Settings()
    last,              \* what the last operation did and returned
    callers            \* concurrent caller -> where it is in _get_editable

vars ==
    <<registry, django_settings, db, live, _editable_caches, scans, late,
      last, callers>>

\* ------------------------------------------------------------------ bounds

\* Longest str or list default an append may build.
MaxLen == 2
\* Largest integer default an append may build.
MaxInt == 2
\* Number of request objects besides the null sentinel.
MaxRequests == 1
\* _load calls counted per request identity between two clears.
MaxScans == 2
\* register_setting calls made while the defaults modules are imported,
\* before Settings() is constructed (lines 229-242).
MaxStartupCalls == 2
\* register_setting calls made after Settings() is constructed.
MaxLateCalls == 1
\* Callers that resolve settings concurrently under one request identity.
MaxCallers == 2

\* ------------------------------------------------------------------ values

PyNone == [t |-> "NoneType", v |-> <<>>]
PyTrue == [t |-> "bool", v |-> 1]
PyFalse == [t |-> "bool", v |-> 0]
PyInt(i) == [t |-> "int", v |-> i]
PyStr(s) == [t |-> "str", v |-> s]
PyList(l) == [t |-> "list", v |-> l]
PyBytes(b) == [t |-> "bytes", v |-> b]

\* Python's bool(x) of a value: used by `if editable`.
IsNumber(x) == x.t \in {"bool", "int"}

\* Python's ==: a bool is an int (True == 1), other types compare within the
\* type only.
PyEq(a, b) ==
    IF IsNumber(a) /\ IsNumber(b) THEN a.v = b.v
    ELSE a.t = b.t /\ a.v = b.v

\* The result of a call that may raise: exc is "" when it returned.
Returned(x) == [exc |-> "", v |-> x]
Raised(e) == [exc |-> e, v |-> PyNone]

\* An assignment where the code has +=.
PyAssign(a, b) == Returned(b)

\* Python's `a += b` on the values of the model: numbers add (and a bool
\* becomes an int), str and list concatenate, a list is extended by the
\* characters of a str; every other pair raises TypeError.
PyIAdd(a, b) ==
    IF IsNumber(a) /\ IsNumber(b) THEN Returned(PyInt(a.v + b.v))
    ELSE IF a.t = "str" /\ b.t = "str" THEN Returned(PyStr(a.v \o b.v))
    ELSE IF a.t = "bytes" /\ b.t = "bytes" THEN Returned(PyBytes(a.v \o b.v))
    ELSE IF a.t = "list" /\ b.t = "list" THEN Returned(PyList(a.v \o b.v))
    ELSE IF a.t = "list" /\ b.t = "str"
        THEN Returned(PyList(a.v \o [i \in 1..Len(b.v) |-> <<b.v[i]>>]))
    ELSE Raised("TypeError")

\* ------------------------------------------------------------------ text

T_False == <<"F", "a", "l", "s", "e">>
T_True == <<"T", "r", "u", "e">>

Digits == {"0", "1", "2", "3", "4", "5", "6", "7", "8", "9"}

DigitValue(c) ==
    CASE c = "0" -> 0 [] c = "1" -> 1 [] c = "2" -> 2 [] c = "3" -> 3
      [] c = "4" -> 4 [] c = "5" -> 5 [] c = "6" -> 6 [] c = "7" -> 7
      [] c = "8" -> 8 [] c = "9" -> 9

\* The code points of the characters the model uses (all ASCII, so one
\* UTF-8 byte each).
Ord(c) ==
    CASE c \in Digits -> 48 + DigitValue(c)
      [] c = " " -> 32 [] c = "-" -> 45 [] c = "+" -> 43 [] c = "_" -> 95
      [] c = "A" -> 65 [] c = "B" -> 66 [] c = "F" -> 70 [] c = "T" -> 84
      [] c = "a" -> 97 [] c = "b" -> 98 [] c = "e" -> 101 [] c = "l" -> 108
      [] c = "r" -> 114 [] c = "s" -> 115 [] c = "u" -> 117 [] c = "x" -> 120

Upper(c) ==
    CASE c = "a" -> "A" [] c = "b" -> "B" [] c = "e" -> "E" [] c = "l" -> "L"
      [] c = "r" -> "R" [] c = "s" -> "S" [] c = "u" -> "U" [] c = "x" -> "X"
      [] OTHER -> c

Lower(c) ==
    CASE c = "A" -> "a" [] c = "B" -> "b" [] c = "F" -> "f" [] c = "T" -> "t"
      [] OTHER -> c

IsCased(c) == Upper(c) # c \/ Lower(c) # c

\* str.replace("_", " ")
ReplaceUnderscore(s) == [i \in 1..Len(s) |-> IF s[i] = "_" THEN " " ELSE s[i]]

\* str.title(): a cased character is upper case after an uncased one (or
\* at the start) and lower case after a cased one.
Title(s) ==
    [i \in 1..Len(s) |->
        IF i > 1 /\ IsCased(s[i - 1]) THEN Lower(s[i]) ELSE Upper(s[i])]

\* str.strip() of blanks.
RECURSIVE LStrip(_)
LStrip(s) == IF s # <<>> /\ Head(s) = " " THEN LStrip(Tail(s)) ELSE s

RECURSIVE RStrip(_)
RStrip(s) ==
    IF s # <<>> /\ s[Len(s)] = " " THEN RStrip(SubSeq(s, 1, Len(s) - 1)) ELSE s

RECURSIVE DigitsValue(_, _)
DigitsValue(s, acc) ==
    IF s = <<>> THEN acc ELSE DigitsValue(Tail(s), 10 * acc + DigitValue(Head(s)))

\* int() of text without its surrounding blanks and sign: one or more
\* decimal digits, anything else raises ValueError.
ParseDigits(body, sign) ==
    IF body # <<>> /\ \A i \in 1..Len(body) : body[i] \in Digits
    THEN Returned(PyInt(sign * DigitsValue(body, 0)))
    ELSE Raised("ValueError")

ParseSigned(s) ==
    IF s # <<>> /\ Head(s) = "-" THEN ParseDigits(Tail(s), 0 - 1)
    ELSE IF s # <<>> /\ Head(s) = "+" THEN ParseDigits(Tail(s), 1)
    ELSE ParseDigits(s, 1)

\* int(text): blanks stripped, an optional sign, then decimal digits.
ParseInt(text) == ParseSigned(RStrip(LStrip(text)))

\* bytes(text, encoding='utf8')
EncodeUtf8(text) == PyBytes([i \in 1..Len(text) |-> Ord(text[i])])

\* ------------------------------------------------------------------ registry

\* A type inference that tests int before bool (a bool is an int).
setting_type_int_first(default) ==
    IF IsNumber(default) THEN "int"
    ELSE IF default.t = "str" THEN "str"
    ELSE IF default.t = "bytes" THEN "bytes"
    ELSE default.t

\* The type register_setting infers from a default (lines 59-72).
setting_type(default) ==
    IF default.t = "bool" THEN "bool"
    ELSE IF default.t = "int" THEN "int"
    ELSE IF default.t = "str" THEN "str"
    ELSE IF default.t = "bytes" THEN "bytes"
    ELSE default.t

\* hasattr(django_settings, name)
hasattr_django(name) == name \in DOMAIN django_settings

\* getattr that ignores the framework settings object.
getattr_default_only(name, default) == default

\* getattr(django_settings, name, default)
getattr_django(name, default) ==
    IF name \in DOMAIN django_settings THEN django_settings[name] ELSE default

\* An editable flag stored as the caller passed it.
editable_as_passed(name, editable) == editable

\* Lines 51-52: a name the framework settings define is stored as not
\* editable.
stored_editable(name, editable) ==
    IF hasattr_django(name) THEN FALSE ELSE editable

\* Absent keyword arguments are None; NoName is the name=None of the signature.
NoName == <<>>
NoArg == PyNone

Names == {<<"A", "_", "B">>, <<"B">>}

\* The framework settings objects a process may start with: none of the
\* names defined, one of them, both of them.
DjangoConfigs ==
    { [n \in {} |-> PyNone],
      [n \in {<<"A", "_", "B">>} |-> PyInt(2)],
      [n \in Names |-> IF n = <<"B">> THEN PyInt(3) ELSE PyInt(2)] }

\* The size of a value, which the bounds on append limit.
WithinBounds(x) ==
    IF IsNumber(x) THEN x.v <= MaxInt
    ELSE IF x.t \in {"str", "list", "bytes"} THEN Len(x.v) <= MaxLen
    ELSE TRUE

\* m with key k set to x (a dict item assignment).
SetItem(m, k, x) == [j \in DOMAIN m \cup {k} |-> IF j = k THEN x ELSE m[j]]

\* m without the keys in ks.
DelItems(m, ks) == [j \in DOMAIN m \ ks |-> m[j]]

\* What an operation did: the exception it raised ("" when it returned), the
\* value it returned, whether it ran _load, the warnings it emitted and the
\* names whose rows it deleted; args are the arguments of a register_setting
\* call.
Called(op, req, name, exc, value, scanned, warnings, removed, args) ==
    [op |-> op, req |-> req, name |-> name, exc |-> exc, value |-> value,
     scanned |-> scanned, warnings |-> warnings, removed |-> removed,
     args |-> args]

Outcome(op, req, name, exc, value, scanned, warnings, removed) ==
    Called(op, req, name, exc, value, scanned, warnings, removed, <<>>)

\* The outcome of an operation that returns nothing and scans nothing.
Plain(op, req, exc) == Outcome(op, req, NoName, exc, PyNone, FALSE, <<>>, {})

NULL_REQUEST == 0
Requests == 1..MaxRequests

\* The concurrent callers, and a caller that is not inside __getattr__.
Callers == 1..MaxCallers

Idle ==
    [pc |-> "idle", request |-> NULL_REQUEST, name |-> NoName,
     editable_settings |-> [n \in {} |-> PyNone]]

\* Lines 43-45: the default of the name becomes the sum, unless += raised.
Appended(reg, name, sum) ==
    IF sum.exc # "" THEN [exc |-> sum.exc, registry |-> reg]
    ELSE [exc |-> "", registry |-> [reg EXCEPT ![name].default = sum.v]]

\* register_setting without the check of lines 36-38.
register_setting_unchecked(reg, name, label, editable, description, default, choices, append, translatable) ==
    IF name = NoName THEN [exc |-> "TypeError", registry |-> reg]
    ELSE IF append /\ name \in DOMAIN reg
        THEN Appended(reg, name, PyIAdd(reg[name].default, default))
    ELSE [exc |-> "",
          registry |->
              SetItem(reg, name,
                  [name |-> name,
                   label |-> IF label = NoArg
                             THEN PyStr(Title(ReplaceUnderscore(name)))
                             ELSE label,
                   editable |-> stored_editable(name, editable),
                   description |-> description,
                   default |-> default,
                   choices |-> choices,
                   type |-> setting_type(default),
                   translatable |-> translatable])]

\* register_setting(name, label, editable, description, default, choices,
\* append, translatable), lines 25-76, called with the registry reg: the
\* exception it raises (or "") and the registry it leaves.
register_setting(reg, name, label, editable, description, default, choices, append, translatable) ==
    IF name = NoName THEN [exc |-> "TypeError", registry |-> reg]
    ELSE IF editable /\ default = PyNone
        THEN [exc |-> "TypeError", registry |-> reg]
    ELSE IF append /\ name \in DOMAIN reg
        THEN Appended(reg, name, PyIAdd(reg[name].default, default))
    ELSE [exc |-> "",
          registry |->
              SetItem(reg, name,
                  [name |-> name,
                   label |-> IF label = NoArg
                             THEN PyStr(Title(ReplaceUnderscore(name)))
                             ELSE label,
                   editable |-> stored_editable(name, editable),
                   description |-> description,
                   default |-> default,
                   choices |-> choices,
                   type |-> setting_type(default),
                   translatable |-> translatable])]

\* Every default of the registry is within the bounds of the model.
RegistryWithinBounds(reg) == \A n \in DOMAIN reg : WithinBounds(reg[n].default)

\* A caller's call of register_setting with the arguments args has the
\* outcome `call`.
Registered(call, args) ==
    /\ RegistryWithinBounds(call.registry)
    /\ registry' = call.registry
    /\ last' = Called("register", NULL_REQUEST, args.name, call.exc, PyNone,
                      FALSE, <<>>, {}, args)
    /\ UNCHANGED <<django_settings, db, live, _editable_caches, scans>>

\* A caller calls register_setting.
RegisterSetting(name, label, editable, description, default, choices, append, translatable) ==
    Registered(register_setting(registry, name, label, editable, description,
                                default, choices, append, translatable),
               [name |-> name, label |-> label, editable |-> editable,
                description |-> description, default |-> default,
                choices |-> choices, append |-> append,
                translatable |-> translatable])

\* ------------------------------------------------------------------ resolver

\* TYPE_FUNCTIONS.get(setting_type, setting_type)(value), lines 106-109 and
\* 177-179: the conversion of a row's text to the descriptor's type.
type_fn(type, value) ==
    IF type = "bool"
        THEN Returned(IF value # T_False THEN PyTrue ELSE PyFalse)
    ELSE IF type = "bytes" THEN Returned(EncodeUtf8(value))
    ELSE IF type = "int" THEN ParseInt(value)
    ELSE IF type = "str" THEN Returned(PyStr(value))
    ELSE IF type = "list"
        THEN Returned(PyList([i \in 1..Len(value) |-> <<value[i]>>]))
    ELSE Raised("TypeError")

\* The orders in which Setting.objects.all() may yield the rows (the model
\* declares no ordering).
RowOrders ==
    {o \in [1..Cardinality(DOMAIN db) -> DOMAIN db] :
        \A i, j \in DOMAIN o : o[i] = o[j] => i = j}

\* One pass of the loop of _load (lines 166-195) over a registered row:
\* the converted value, or the registered default when the conversion
\* raises ValueError (lines 176-184).
OrDefault(converted, name) ==
    IF converted.exc = "ValueError" THEN Returned(registry[name].default)
    ELSE converted

setting_value(name) ==
    OrDefault(type_fn(registry[name].type, db[name]), name)

\* The rows whose pass raises (the exception lines 178-184 do not catch).
Raising(rows) ==
    {i \in 1..Len(rows) :
        rows[i] \in DOMAIN registry /\ setting_value(rows[i]).exc # ""}

FirstOf(indices) == CHOOSE i \in indices : \A j \in indices : i <= j

\* Lines 167-173: the row's name is not registered.
Unregistered(name) == name \notin DOMAIN registry

\* Lines 189-195: the framework defines the name and the row's value is
\* not the registered default.
Conflicting(name) ==
    /\ name \in DOMAIN registry
    /\ hasattr_django(name)
    /\ ~PyEq(setting_value(name).v, registry[name].default)

\* Lines 189-192: the names whose value goes into new_cache.
Cached == {name \in DOMAIN db : name \in DOMAIN registry /\ ~hasattr_django(name)}

\* The loop of _load over the rows (lines 166-195): removed_settings,
\* conflicting_settings and new_cache as the passes leave them, and the
\* exception of the first pass that raises, if any.
ScanRows(rows) ==
    [exc |-> IF Raising(rows) = {} THEN ""
             ELSE setting_value(rows[FirstOf(Raising(rows))]).exc,
     removed_settings |-> SelectSeq(rows, Unregistered),
     conflicting_settings |-> SelectSeq(rows, Conflicting),
     new_cache |-> [name \in Cached |-> setting_value(name).v]]

Range(f) == {f[i] : i \in DOMAIN f}

\* A _load that deletes nothing.
KeepRemoved(removed_settings) == db

\* A _load whose delete is not filtered by name.
DeleteAllRows(removed_settings) ==
    IF removed_settings # <<>> THEN [n \in {} |-> <<>>] ELSE db

\* Lines 197-198: the rows left by the bulk delete.
DeleteRemoved(removed_settings) ==
    IF removed_settings # <<>> THEN DelItems(db, Range(removed_settings))
    ELSE db

\* Lines 199-202: the warnings emitted, each the list of names it joins.
WarnConflicting(conflicting_settings) ==
    IF conflicting_settings # <<>> THEN <<conflicting_settings>> ELSE <<>>

\* Lines 197-204, after the loop.
AfterScan(scan) ==
    IF scan.exc # ""
    THEN [exc |-> scan.exc, new_cache |-> scan.new_cache, db |-> db,
          removed |-> {}, warnings |-> <<>>]
    ELSE [exc |-> "", new_cache |-> scan.new_cache,
          db |-> DeleteRemoved(scan.removed_settings),
          removed |-> Range(scan.removed_settings),
          warnings |-> WarnConflicting(scan.conflicting_settings)]

\* Settings._load(), lines 153-204, over the rows in the given order: the
\* exception it raises or the mapping it returns, the rows left in the
\* table, the names whose rows it deleted and the warnings it emits.
_load(rows) == AfterScan(ScanRows(rows))

\* Line 150: the loaded mapping becomes the entry of the request (nothing
\* is stored when _load raised).
StoreLoaded(request, loaded) ==
    [exc |-> loaded.exc, editable_settings |-> loaded.new_cache,
     scanned |-> TRUE,
     caches |-> IF loaded.exc = ""
                THEN SetItem(_editable_caches, request, loaded.new_cache)
                ELSE _editable_caches,
     db |-> loaded.db, removed |-> loaded.removed,
     warnings |-> loaded.warnings]

\* A _get_editable that loads on every call.
_get_editable_reload(request, rows) == StoreLoaded(request, _load(rows))

\* Settings._get_editable(request), lines 140-151: the mapping of the
\* request, loaded and stored when the request has none.
_get_editable(request, rows) ==
    IF request \in DOMAIN _editable_caches
    THEN [exc |-> "", editable_settings |-> _editable_caches[request],
          scanned |-> FALSE, caches |-> _editable_caches, db |-> db,
          removed |-> {}, warnings |-> <<>>]
    ELSE StoreLoaded(request, _load(rows))

\* Settings._current_request, lines 120-122: the ambient request of a
\* caller, or the null sentinel.
_current_request == {NULL_REQUEST} \cup live

\* The end of __getattr__, lines 223-226: the cached value of the name, or
\* the framework's, or the registered default.
cached_or_default(editable_cache, name) ==
    IF name \in DOMAIN editable_cache THEN editable_cache[name]
    ELSE getattr_django(name, registry[name].default)

\* Lines 218-226 of __getattr__: the name is registered and editable, and
\* got is what _get_editable did.
GetEditableSetting(request, name, got) ==
    /\ got.scanned => scans[request] < MaxScans
    /\ db' = got.db
    /\ _editable_caches' = got.caches
    /\ scans' = IF got.scanned THEN [scans EXCEPT ![request] = @ + 1]
                ELSE scans
    /\ last' = IF got.exc # ""
               THEN Outcome("resolve", request, name, got.exc, PyNone, TRUE,
                            <<>>, {})
               ELSE Outcome("resolve", request, name, "",
                            cached_or_default(got.editable_settings, name),
                            got.scanned, got.warnings, got.removed)

\* A lookup of an unregistered name that returns None where the framework
\* settings do not define the name.
getattr_unregistered_defaulted(request, name) ==
    /\ UNCHANGED <<db, _editable_caches, scans>>
    /\ last' = Outcome("resolve", request, name, "",
                       getattr_django(name, PyNone), FALSE, <<>>, {})

\* Lines 209-212 of __getattr__: the name is not registered, and the
\* framework settings object answers (or raises AttributeError).
getattr_unregistered(request, name) ==
    /\ UNCHANGED <<db, _editable_caches, scans>>
    /\ last' = IF hasattr_django(name)
               THEN Outcome("resolve", request, name, "",
                            django_settings[name], FALSE, <<>>, {})
               ELSE Outcome("resolve", request, name,
                            "AttributeError", PyNone, FALSE, <<>>, {})

\* A __getattr__ without the test of the editable flag (lines 214-216):
\* every registered name is answered from the cache.
__getattr___ignoring_editable(request, name) ==
    /\ request \in _current_request
    /\ UNCHANGED <<registry, django_settings, live, late>>
    /\ IF name \notin DOMAIN registry
       THEN getattr_unregistered(request, name)
       ELSE \E rows \in RowOrders :
                GetEditableSetting(request, name, _get_editable(request, rows))

\* Settings.__getattr__(name), lines 206-226, called under the ambient
\* request identity `request`.
__getattr__(request, name) ==
    /\ request \in _current_request
    /\ UNCHANGED <<registry, django_settings, live, late>>
    /\ IF name \notin DOMAIN registry
       THEN getattr_unregistered(request, name)
       ELSE IF ~registry[name].editable
       THEN /\ UNCHANGED <<db, _editable_caches, scans>>
            /\ last' = Outcome("resolve", request, name, "",
                               getattr_django(name, registry[name].default),
                               FALSE, <<>>, {})
       ELSE \E rows \in RowOrders :
                GetEditableSetting(request, name, _get_editable(request, rows))

\* A clear_cache that empties the whole mapping.
clear_all_caches(request) ==
    /\ request \in _current_request
    /\ _editable_caches' = [r \in {} |-> [n \in {} |-> PyNone]]
    /\ scans' = [scans EXCEPT ![request] = 0]
    /\ last' = Plain("clear_cache", request, "")
    /\ UNCHANGED <<registry, django_settings, db, live, late>>

\* Settings.clear_cache(), lines 136-138, under the ambient identity.
clear_cache(request) ==
    /\ request \in _current_request
    /\ _editable_caches' = DelItems(_editable_caches, {request})
    /\ scans' = [scans EXCEPT ![request] = 0]
    /\ last' = Plain("clear_cache", request, "")
    /\ UNCHANGED <<registry, django_settings, db, live, late>>

\* ------------------------------------------------------------------ environment

\* The text another actor may store in a row.
DbTexts == {<<"2">>, <<"x">>}

\* Another actor (the admin form) inserts the row of a name or updates it.
SaveRow(name, value) ==
    /\ db' = SetItem(db, name, value)
    /\ db' # db
    /\ last' = Plain("db", NULL_REQUEST, "")
    /\ UNCHANGED <<registry, django_settings, live, _editable_caches, scans, late>>

\* Another actor deletes the row of a name.
DeleteRow(name) ==
    /\ name \in DOMAIN db
    /\ db' = DelItems(db, {name})
    /\ last' = Plain("db", NULL_REQUEST, "")
    /\ UNCHANGED <<registry, django_settings, live, _editable_caches, scans, late>>

\* A request object comes into being (and becomes the ambient request of
\* its callers).
BeginRequest(request) ==
    /\ request \notin live
    /\ live' = live \cup {request}
    /\ last' = Plain("request", NULL_REQUEST, "")
    /\ UNCHANGED <<registry, django_settings, db, _editable_caches, scans, late>>

\* The last reference to a request object goes while a plain dict holds
\* the entries: the entry stays.
EndRequestKeepEntry(request) ==
    /\ request \in live
    /\ live' = live \ {request}
    /\ last' = Plain("request", NULL_REQUEST, "")
    /\ UNCHANGED <<registry, django_settings, db, _editable_caches, scans, late>>

\* The last reference to a request object goes: the WeakKeyDictionary of
\* line 118 discards its entry, if it has one.
EndRequest(request) ==
    /\ request \in live
    /\ live' = live \ {request}
    /\ _editable_caches' = DelItems(_editable_caches, {request})
    /\ scans' = [scans EXCEPT ![request] = 0]
    /\ last' = IF request \in DOMAIN _editable_caches
               THEN Plain("discard", request, "")
               ELSE Plain("request", NULL_REQUEST, "")
    /\ UNCHANGED <<registry, django_settings, db, late>>

\* ------------------------------------------------------------------ specification

\* The defaults the callers of register_setting pass.
Defaults == {PyNone, PyInt(1)}

\* The calls the defaults modules make.
Calls == (Names \cup {NoName}) \X BOOLEAN \X Defaults \X BOOLEAN

CallResult(reg, c) ==
    register_setting(reg, c[1], NoArg, c[2], NoArg, c[3], NoArg, c[4], FALSE)

\* The registries one more call, or none, makes of the registries `before`.
OneMoreCall(before) ==
    before \cup
    {r \in {CallResult(reg, c).registry : reg \in before, c \in Calls} :
        RegistryWithinBounds(r)}

\* The registries the import of the defaults modules (lines 229-240) may
\* leave after at most k calls of register_setting.
RECURSIVE RegistriesAfter(_)
RegistriesAfter(k) ==
    IF k = 0 THEN {[n \in {} |-> PyNone]}
    ELSE OneMoreCall(RegistriesAfter(k - 1))

\* A mapping constructed with no entry.
EmptyCaches == [r \in {} |-> [n \in {} |-> PyNone]]

\* Line 118: WeakKeyDictionary({self.NULL_REQUEST: {}}), the null sentinel
\* has an empty mapping from the start.
SeededCaches == [r \in {NULL_REQUEST} |-> [n \in {} |-> PyNone]]

\* Settings.__init__, lines 111-118 (line 242), after the defaults modules
\* have registered their settings.
Init ==
    /\ django_settings \in DjangoConfigs
    /\ registry \in RegistriesAfter(MaxStartupCalls)
    /\ db = [n \in {} |-> <<>>]
    /\ live = {}
    /\ _editable_caches = SeededCaches
    /\ scans = [r \in {NULL_REQUEST} \cup Requests |-> 0]
    /\ late = 0
    /\ last = Plain("init", NULL_REQUEST, "")
    /\ callers = [c \in Callers |-> Idle]

Register ==
    /\ UNCHANGED callers
    /\ late < MaxLateCalls
    /\ late' = late + 1
    /\ \E c \in Calls :
        RegisterSetting(c[1], NoArg, c[2], NoArg, c[3], NoArg, c[4], FALSE)

Resolve ==
    /\ UNCHANGED callers
    /\ \E request \in {NULL_REQUEST} \cup Requests, name \in Names :
        __getattr__(request, name)

ClearCache ==
    /\ UNCHANGED callers
    /\ \E request \in {NULL_REQUEST} \cup Requests : clear_cache(request)

Save ==
    /\ UNCHANGED callers
    /\ \E name \in Names, value \in DbTexts : SaveRow(name, value)

Delete == UNCHANGED callers /\ \E name \in Names : DeleteRow(name)

Begin == UNCHANGED callers /\ \E request \in Requests : BeginRequest(request)

End == UNCHANGED callers /\ \E request \in Requests : EndRequest(request)

Next == Register \/ Resolve \/ ClearCache \/ Save \/ Delete \/ Begin \/ End

Spec == Init /\ [][Next]_vars

\* ------------------------------------------------------------------ registration alone

\* The label, description, choices and translatable a caller passes: all
\* left out, or all given.
Metas ==
    { <<NoArg, NoArg, NoArg, FALSE>>,
      <<PyStr(<<"l">>), PyStr(<<"d">>), PyList(<< <<"x">> >>), TRUE>> }

RegistryDefaults == {PyNone, PyInt(1), PyStr(<<"a">>), PyList(<< <<"a">> >>)}

\* The module before any defaults module is imported: the registry of line
\* 22 is empty.
InitRegistry ==
    /\ django_settings \in DjangoConfigs
    /\ registry = [n \in {} |-> PyNone]
    /\ db = [n \in {} |-> <<>>]
    /\ live = {}
    /\ _editable_caches = SeededCaches
    /\ scans = [r \in {NULL_REQUEST} \cup Requests |-> 0]
    /\ late = 0
    /\ last = Plain("init", NULL_REQUEST, "")
    /\ callers = [c \in Callers |-> Idle]

NextRegistry ==
    /\ UNCHANGED <<late, callers>>
    /\ \E name \in Names \cup {NoName}, meta \in Metas, editable \in BOOLEAN,
          default \in RegistryDefaults, append \in BOOLEAN :
            RegisterSetting(name, meta[1], editable, meta[2], default,
                            meta[3], append, meta[4])

SpecRegistry == InitRegistry /\ [][NextRegistry]_vars

\* ------------------------------------------------------------------ conversion alone

\* One setting, registered with a boolean or an integer default, and the
\* texts a row of it may hold.
ConvertName == <<"B">>

ConvertDefaults == {PyTrue, PyFalse, PyInt(1)}

ConvertTexts ==
    {T_False, T_True, <<"1">>, <<"0">>, <<>>, <<"x">>,
     <<"F", "a", "l", "s", "e", " ">>}

RegisterConvert ==
    /\ UNCHANGED <<late, callers>>
    /\ \E editable \in BOOLEAN, default \in ConvertDefaults :
        RegisterSetting(ConvertName, NoArg, editable, NoArg, default, NoArg,
                        FALSE, FALSE)

SaveConvert ==
    UNCHANGED callers /\ \E value \in ConvertTexts : SaveRow(ConvertName, value)

ResolveConvert == UNCHANGED callers /\ __getattr__(NULL_REQUEST, ConvertName)

ClearConvert == UNCHANGED callers /\ clear_cache(NULL_REQUEST)

NextConvert == RegisterConvert \/ SaveConvert \/ ResolveConvert \/ ClearConvert

SpecConvert == InitRegistry /\ [][NextConvert]_vars

\* ------------------------------------------------------------------ concurrent callers

\* Callers with no ambient request (background threads) run __getattr__ at
\* the same time; each is between two of its steps.  _load, one query and
\* one bulk delete, is taken as one step.

\* Where caller c is after a step, resolving the name with the mapping.
At(pc, name, editable_settings) ==
    [pc |-> pc, request |-> NULL_REQUEST, name |-> name,
     editable_settings |-> editable_settings]

\* Lines 222 and 147-149: caller c resolves an editable setting and looks
\* up the entry of its request identity; it has the mapping on a hit and
\* goes on to _load on a KeyError.
CallerLookup(c, name) ==
    /\ callers[c].pc = "idle"
    /\ name \in DOMAIN registry
    /\ registry[name].editable
    /\ callers' = [callers EXCEPT ![c] =
          IF NULL_REQUEST \in DOMAIN _editable_caches
          THEN At("returned", name, _editable_caches[NULL_REQUEST])
          ELSE At("loading", name, Idle.editable_settings)]
    /\ last' = Plain("lookup", NULL_REQUEST, "")
    /\ UNCHANGED <<registry, django_settings, db, live, _editable_caches,
                   scans, late>>

\* Line 150, right-hand side: the caller's _load returned `loaded` or
\* raised.
CallerLoaded(c, loaded) ==
    /\ db' = loaded.db
    /\ scans' = [scans EXCEPT ![NULL_REQUEST] = @ + 1]
    /\ callers' = [callers EXCEPT ![c] =
          IF loaded.exc # "" THEN Idle
          ELSE At("storing", callers[c].name, loaded.new_cache)]
    /\ last' = Outcome("load", NULL_REQUEST, callers[c].name, loaded.exc,
                       PyNone, TRUE, loaded.warnings, loaded.removed)
    /\ UNCHANGED <<registry, django_settings, live, _editable_caches, late>>

CallerLoad(c) ==
    /\ callers[c].pc = "loading"
    /\ scans[NULL_REQUEST] < MaxScans
    /\ \E rows \in RowOrders : CallerLoaded(c, _load(rows))

\* Line 150, the assignments: the mapping the caller loaded becomes the
\* entry of the request identity and the caller's editable_settings.
CallerStore(c) ==
    /\ callers[c].pc = "storing"
    /\ _editable_caches' =
          SetItem(_editable_caches, NULL_REQUEST, callers[c].editable_settings)
    /\ callers' = [callers EXCEPT ![c].pc = "returned"]
    /\ last' = Plain("store", NULL_REQUEST, "")
    /\ UNCHANGED <<registry, django_settings, db, live, scans, late>>

\* Lines 151 and 223-226: the caller returns the value its mapping gives.
CallerReturn(c) ==
    /\ callers[c].pc = "returned"
    /\ callers' = [callers EXCEPT ![c] = Idle]
    /\ last' = Outcome("resolve", NULL_REQUEST, callers[c].name, "",
                       cached_or_default(callers[c].editable_settings,
                                         callers[c].name),
                       FALSE, <<>>, {})
    /\ UNCHANGED <<registry, django_settings, db, live, _editable_caches,
                   scans, late>>

\* clear_cache with no ambient request, made when no caller holds a mapping
\* it has not returned from yet (so that the mappings held at one time were
\* got between the same two clears).
CallerClear ==
    /\ \A c \in Callers : callers[c].pc # "returned"
    /\ clear_cache(NULL_REQUEST)
    /\ UNCHANGED callers

Lookup == \E c \in Callers, name \in Names : CallerLookup(c, name)

Load == \E c \in Callers : CallerLoad(c)

Store == \E c \in Callers : CallerStore(c)

Return == \E c \in Callers : CallerReturn(c)

NextCallers == Lookup \/ Load \/ Store \/ Return \/ CallerClear \/ Save

SpecCallers == Init /\ [][NextCallers]_vars

\* ------------------------------------------------------------------ no clear without a request

\* The behaviours in which clear_cache is never called with no ambient
\* request: it is called inside requests only.
ClearCacheInRequest ==
    UNCHANGED callers /\ \E request \in Requests : clear_cache(request)

NextInRequest ==
    Register \/ Resolve \/ ClearCacheInRequest \/ Save \/ Delete \/ Begin \/ End

SpecInRequest == Init /\ [][NextInRequest]_vars

\* ------------------------------------------------------------------ claims

\* The last operation resolved a registered editable setting.
ResolvedEditable ==
    /\ last.op = "resolve"
    /\ last.name \in DOMAIN registry
    /\ registry[last.name].editable

\* C1: between two clears of a request identity's cache entry, _load runs
\* at most once under that identity, however many resolves are made.
C1_ScanAtMostOnce == \A request \in DOMAIN scans : scans[request] <= 1

\* C2: while a request identity keeps its cache entry and the registry is
\* as it was, no step (a row inserted, updated or deleted, a resolve, a
\* load under another identity) changes what a resolve of an editable
\* setting under that identity returns, and a resolve under it returns that
\* value without a scan.
C2_CachedValueStable ==
    [][\A request \in DOMAIN _editable_caches \cap DOMAIN _editable_caches' :
        \A name \in Names :
            (/\ registry' = registry
             /\ name \in DOMAIN registry
             /\ registry[name].editable)
            => /\ cached_or_default(_editable_caches'[request], name)
                    = cached_or_default(_editable_caches[request], name)
               /\ (last'.op = "resolve" /\ last'.req = request
                        /\ last'.name = name)
                    => /\ last'.exc = ""
                       /\ ~last'.scanned
                       /\ last'.value
                            = cached_or_default(_editable_caches[request],
                                                name)]_vars

\* A resolve answered from the cache with a value that is no longer the
\* one the row of the name converts to.
C2_Witness ==
    /\ ResolvedEditable
    /\ late = 0
    /\ ~last.scanned
    /\ last.exc = ""
    /\ last.name \in DOMAIN _editable_caches[last.req]
    /\ last.name \in DOMAIN db
    /\ setting_value(last.name).exc = ""
    /\ ~PyEq(setting_value(last.name).v, last.value)

\* C3: a resolve of an editable setting under a request identity that has
\* no cache entry (none yet, or cleared) scans the database and returns the
\* value converted from the row the name has at that moment.
C3_FreshResolveReturnsRow ==
    [][(/\ last'.op = "resolve"
        /\ last'.name \in DOMAIN registry
        /\ registry[last'.name].editable
        /\ ~hasattr_django(last'.name)
        /\ last'.req \notin DOMAIN _editable_caches)
       => /\ last'.scanned
          /\ last'.exc = ""
          /\ last'.name \in DOMAIN db
                => last'.value = setting_value(last'.name).v]_vars

\* C4: a resolve of a registered editable setting returns the value the
\* request's cache holds for the name, else the framework's value, else the
\* registered default.
C4_CacheThenFrameworkThenDefault ==
    ResolvedEditable
    => /\ last.exc = ""
       /\ last.req \in DOMAIN _editable_caches
       /\ last.value = cached_or_default(_editable_caches[last.req], last.name)

\* C5: resolving a registered name that the framework defines and that has
\* a row returns the framework's value.
C5_FrameworkWins ==
    (/\ last.op = "resolve"
     /\ last.name \in DOMAIN registry
     /\ hasattr_django(last.name)
     /\ last.name \in DOMAIN db)
    => /\ last.exc = ""
       /\ last.value = django_settings[last.name]

\* Such a resolve, of a name whose row converts to another value than the
\* framework's.
C5_Witness ==
    /\ last.op = "resolve"
    /\ last.name \in DOMAIN registry
    /\ hasattr_django(last.name)
    /\ last.name \in DOMAIN db
    /\ type_fn(registry[last.name].type, db[last.name]).exc = ""
    /\ ~PyEq(type_fn(registry[last.name].type, db[last.name]).v, last.value)
    /\ last.value = django_settings[last.name]

\* The row of a registered name holds another value than the framework
\* defines for the name.
DiffersFromFramework(converted, name) ==
    converted.exc # "" \/ ~PyEq(converted.v, django_settings[name])

FrameworkConflicts ==
    {name \in DOMAIN db \cap DOMAIN registry :
        /\ hasattr_django(name)
        /\ DiffersFromFramework(type_fn(registry[name].type, db[name]), name)}

\* C6: a load emits exactly one warning, listing every registered name
\* whose framework value and row differ, when there is such a name, and no
\* warning when there is none.
C6_OneWarningPerConflictingLoad ==
    (last.op = "resolve" /\ last.scanned)
    => IF FrameworkConflicts # {}
       THEN /\ Len(last.warnings) = 1
            /\ Range(last.warnings[1]) = FrameworkConflicts
            /\ Len(last.warnings[1]) = Cardinality(FrameworkConflicts)
       ELSE last.warnings = <<>>

\* C7: after a load that completes, no row and no name of the mapping the
\* load returned is unregistered.
C7_NoUnregisteredAfterLoad ==
    (last.op = "resolve" /\ last.scanned /\ last.exc = "")
    => /\ DOMAIN db \subseteq DOMAIN registry
       /\ DOMAIN _editable_caches[last.req] \subseteq DOMAIN registry

\* A completed load that deleted the row of an unregistered name and
\* returned a mapping of the registered ones.
C7_Witness ==
    /\ last.op = "resolve"
    /\ last.scanned
    /\ last.exc = ""
    /\ last.removed # {}
    /\ last.removed \cap DOMAIN registry = {}
    /\ DOMAIN _editable_caches[last.req] # {}

\* C8: a resolve or a clear_cache inserts no row and changes the value of
\* none, deletes no row of a registered name, and deletes nothing at all
\* unless it ran a load.
C8_ResolverOnlyDeletesUnregistered ==
    [][last'.op \in {"resolve", "clear_cache"}
       => /\ \A name \in DOMAIN db' :
                name \in DOMAIN db /\ db'[name] = db[name]
          /\ \A name \in DOMAIN db \cap DOMAIN registry : name \in DOMAIN db'
          /\ ~last'.scanned => db' = db]_vars

\* A load that deleted the row of an unregistered name and left the row of
\* a registered one.
C8_Witness ==
    /\ last.op = "resolve"
    /\ last.removed # {}
    /\ DOMAIN db # {}
    /\ DOMAIN db \subseteq DOMAIN registry

\* The last operation was a register_setting call that lines 33-38 reject.
RejectedCall(outcome) ==
    /\ outcome.op = "register"
    /\ \/ outcome.args.name = NoName
       \/ outcome.args.editable /\ outcome.args.default = PyNone

\* C9: a register_setting call without a name, or with editable true and
\* no default, raises TypeError and leaves the registry as it was, whatever
\* its other arguments are.
C9_RejectedCallChangesNothing ==
    [][RejectedCall(last')
       => last'.exc = "TypeError" /\ registry' = registry]_vars

\* A rejected call with editable and append true, of a name that is
\* registered and that the framework defines.
C9_Witness ==
    /\ RejectedCall(last)
    /\ last.exc = "TypeError"
    /\ last.args.append
    /\ last.args.name \in DOMAIN registry
    /\ hasattr_django(last.args.name)

\* The step is a register_setting call with append true and a default,
\* which lines 33-38 let pass.
AppendCall(outcome) ==
    /\ outcome.op = "register"
    /\ ~RejectedCall(outcome)
    /\ outcome.args.append
    /\ outcome.args.default # PyNone

IsSequence(x) == x.t \in {"str", "list"}

\* The list old followed by the elements of new (the characters of a str).
Elements(x) ==
    IF x.t = "list" THEN x.v ELSE [i \in 1..Len(x.v) |-> <<x.v[i]>>]

\* old followed by new: the text of two strs, or the elements of a list
\* and of a list or a str.
Followed(old, new) ==
    IF old.t = "str" THEN PyStr(old.v \o new.v)
    ELSE PyList(old.v \o Elements(new))

Concatenable(old, new) ==
    \/ old.t = "str" /\ new.t = "str"
    \/ old.t = "list" /\ IsSequence(new)

\* The registry but for the default of the name, which is x.
WithDefault(reg, name, x) == [reg EXCEPT ![name].default = x]

\* The same call with append false, on the registry reg.
WithoutAppend(reg, args) ==
    register_setting(reg, args.name, args.label, args.editable,
                     args.description, args.default, args.choices, FALSE,
                     args.translatable)

AppendOutcome(reg, name, old, new) ==
    IF Concatenable(old, new)
        THEN [exc |-> "", registry |-> WithDefault(reg, name, Followed(old, new))]
    ELSE IF IsNumber(old) /\ IsNumber(new)
        THEN [exc |-> "",
              registry |-> WithDefault(reg, name, PyInt(old.v + new.v))]
    ELSE [exc |-> "TypeError", registry |-> reg]

SuccessfulCall(outcome) == outcome.op = "register" /\ outcome.exc = ""

\* C11: after a register_setting call that returns, for a name the framework
\* settings define, the descriptor of the name is not editable, whatever
\* editable argument was passed (and whether or not the call appended).
C11_FrameworkNameNotEditable ==
    [][(SuccessfulCall(last') /\ hasattr_django(last'.args.name))
       => /\ last'.args.name \in DOMAIN registry'
          /\ ~registry'[last'.args.name].editable]_vars

\* A call that passed editable true for a name the framework defines and
\* returned, the descriptor being stored as not editable.
C11_Witness ==
    /\ SuccessfulCall(last)
    /\ hasattr_django(last.args.name)
    /\ last.args.editable
    /\ ~last.args.append
    /\ ~registry[last.args.name].editable

\* The row of the name holds text its descriptor's type cannot convert.
Unconvertible(name) == type_fn(registry[name].type, db[name]).exc # ""

\* C12: a load over rows whose text cannot be converted to the descriptor's
\* type does not raise: it completes, every row of a registered name the
\* framework does not define is in the mapping it returns, and a name whose
\* row cannot be converted has the registered default there.
C12_ConversionFailureFallsBack ==
    (last.op = "resolve" /\ last.scanned)
    => /\ last.exc = ""
       /\ last.req \in DOMAIN _editable_caches
       /\ Cached \subseteq DOMAIN _editable_caches[last.req]
       /\ \A name \in Cached :
            Unconvertible(name)
            => _editable_caches[last.req][name] = registry[name].default

\* C13: a resolve of a name that is not registered returns the framework's
\* value when the framework settings define the name and raises
\* AttributeError when they do not; it scans nothing and leaves every cache
\* entry and every row as it was.
C13_UnregisteredDelegates ==
    [][(last'.op = "resolve" /\ last'.name \notin DOMAIN registry)
       => /\ IF hasattr_django(last'.name)
             THEN /\ last'.exc = ""
                  /\ last'.value = django_settings[last'.name]
             ELSE last'.exc = "AttributeError"
          /\ ~last'.scanned
          /\ scans' = scans
          /\ _editable_caches' = _editable_caches
          /\ db' = db]_vars

\* A resolve of an unregistered name the framework does not define, made
\* under an identity that has no cache entry while the name has a row.
C13_Witness ==
    /\ last.op = "resolve"
    /\ last.name \notin DOMAIN registry
    /\ ~hasattr_django(last.name)
    /\ last.exc = "AttributeError"
    /\ last.req \notin DOMAIN _editable_caches
    /\ last.name \in DOMAIN db

\* The last operation resolved, by a load, an editable setting that has a
\* boolean default, a row, and no framework value.
LoadedBoolean ==
    /\ ResolvedEditable
    /\ last.scanned
    /\ registry[last.name].default.t = "bool"
    /\ ~hasattr_django(last.name)
    /\ last.name \in DOMAIN db

\* C14: a freshly loaded resolve of an editable setting with a boolean
\* default that the framework does not define returns False when the text
\* of its row is exactly "False" and True for every other text; the type of
\* the descriptor is bool, so the text is not parsed as a number.
C14_BooleanFromText ==
    LoadedBoolean
    => /\ last.exc = ""
       /\ registry[last.name].type = "bool"
       /\ last.value = IF db[last.name] = T_False THEN PyFalse ELSE PyTrue

\* Such a resolve returned True for the text "0" of a setting whose default
\* is False.
C14_Witness ==
    /\ LoadedBoolean
    /\ registry[last.name].default = PyFalse
    /\ db[last.name] = <<"0">>
    /\ last.value = PyTrue

\* C15: the cache mapping has entries only for the request objects that are
\* still referenced and for the null sentinel, so it never has more entries
\* than there are live requests plus one.
C15_EntriesOnlyForLiveRequests ==
    /\ DOMAIN _editable_caches \subseteq live \cup {NULL_REQUEST}
    /\ Cardinality(DOMAIN _editable_caches) <= Cardinality(live) + 1

\* A request that had a cache entry was reclaimed and the entry was
\* discarded with it: only the entry of the null sentinel is left.
C15_Witness ==
    /\ last.op = "discard"
    /\ last.req \notin live
    /\ last.req \notin DOMAIN _editable_caches
    /\ DOMAIN _editable_caches = {NULL_REQUEST}

\* C16: after any sequence of register_setting calls the registry holds,
\* under each name, the one descriptor of that name, and every descriptor
\* that is editable has a default that is not None.
C16_EditableHasDefault ==
    \A name \in DOMAIN registry :
        /\ registry[name].name = name
        /\ registry[name].editable => registry[name].default # PyNone

\* An append call whose += raised, on an editable setting that an earlier
\* call registered: the descriptor is as it was.
C16_Witness ==
    /\ last.op = "register"
    /\ last.exc = "TypeError"
    /\ ~RejectedCall(last)
    /\ last.args.append
    /\ last.args.name \in DOMAIN registry
    /\ registry[last.args.name].editable
    /\ Cardinality(DOMAIN registry) = 2

\* C17: when callers under one request identity resolve editable settings
\* concurrently, _load runs at most once under that identity between two
\* clears, and the callers that hold a mapping hold the same one.
C17_ConcurrentCallersScanOnce ==
    /\ \A request \in DOMAIN scans : scans[request] <= 1
    /\ \A c, d \in Callers :
          (callers[c].pc = "returned" /\ callers[d].pc = "returned")
          => callers[c].editable_settings = callers[d].editable_settings

\* C18: clear_cache raises nothing, removes the cache entry of the ambient
\* request identity and nothing else: the entries of the other identities,
\* the registry and the rows are as before, and when the identity has no
\* entry (never had one, or was just cleared) the mapping is as before.
C18_ClearRemovesOnlyOwnEntry ==
    [][last'.op = "clear_cache"
       => /\ last'.exc = ""
          /\ DOMAIN _editable_caches' = DOMAIN _editable_caches \ {last'.req}
          /\ \A request \in DOMAIN _editable_caches' :
                _editable_caches'[request] = _editable_caches[request]
          /\ last'.req \notin DOMAIN _editable_caches
                => _editable_caches' = _editable_caches
          /\ registry' = registry
          /\ db' = db
          /\ django_settings' = django_settings]_vars

\* A clear_cache with no ambient request that left the loaded entry of a
\* live request, and rows, in place.
C18_Witness ==
    /\ last.op = "clear_cache"
    /\ last.req = NULL_REQUEST
    /\ DOMAIN _editable_caches = Requests
    /\ \A request \in Requests : DOMAIN _editable_caches[request] # {}
    /\ DOMAIN db # {}

\* C19: a resolve of a registered setting that is not editable returns the
\* framework's value when the framework settings define the name and the
\* registered default otherwise, whatever row or cached value the name has;
\* it scans nothing and leaves the cache mapping and the rows as they were.
C19_NonEditableIgnoresDatabase ==
    [][(/\ last'.op = "resolve"
        /\ last'.name \in DOMAIN registry
        /\ ~registry[last'.name].editable)
       => /\ last'.exc = ""
          /\ last'.value =
                IF hasattr_django(last'.name) THEN django_settings[last'.name]
                ELSE registry[last'.name].default
          /\ ~last'.scanned
          /\ scans' = scans
          /\ _editable_caches' = _editable_caches
          /\ db' = db]_vars

\* Such a resolve returned the registered default although a load had put
\* another value for the name into the cache of the request identity.
C19_Witness ==
    /\ last.op = "resolve"
    /\ last.name \in DOMAIN registry
    /\ ~registry[last.name].editable
    /\ ~hasattr_django(last.name)
    /\ last.req \in DOMAIN _editable_caches
    /\ last.name \in DOMAIN _editable_caches[last.req]
    /\ ~PyEq(_editable_caches[last.req][last.name], last.value)
    /\ last.value = registry[last.name].default

\* C20: as long as clear_cache has not been called with no ambient request,
\* the null sentinel keeps the empty mapping it was constructed with, and a
\* resolve of an editable setting made with no ambient request scans
\* nothing and returns the framework's value or the registered default,
\* whatever row the name has.
C20_SentinelSeededEmpty ==
    /\ NULL_REQUEST \in DOMAIN _editable_caches
    /\ DOMAIN _editable_caches[NULL_REQUEST] = {}
    /\ scans[NULL_REQUEST] = 0
    /\ (ResolvedEditable /\ last.req = NULL_REQUEST)
       => /\ last.exc = ""
          /\ ~last.scanned
          /\ last.value =
                IF hasattr_django(last.name) THEN django_settings[last.name]
                ELSE registry[last.name].default

\* Such a resolve returned the registered default while the name had a row
\* that converts to another value.
C20_Witness ==
    /\ ResolvedEditable
    /\ last.req = NULL_REQUEST
    /\ last.name \in DOMAIN db
    /\ setting_value(last.name).exc = ""
    /\ ~PyEq(setting_value(last.name).v, last.value)
    /\ last.value = registry[last.name].default

====
